---- MODULE Spec2Model ----
(***************************************************************************)
(* Model of accuracy_over_mentions (src/src/evaluation.py, lines 18-93):   *)
(* the mention-level accuracy of a binary candidate classifier.            *)
(*                                                                         *)
(* Arrays are TLA+ sequences (1-based); the loop index i keeps the 0-based *)
(* value it has in the code.  A window of the code, x[i:i+c], is           *)
(* Slice(x, i, c).  The returned accuracy tot_accuracy / n is kept as the  *)
(* pair (num, den), since the quotient is not an integer.                  *)
(***************************************************************************)
EXTENDS Integers, Sequences, FiniteSets, TLC

VARIABLES preds, labels, docs, mentions, candidates_in,
          candidates, pc, i, tot_accuracy, result_str, hist, err, ret, log

vars == <<preds, labels, docs, mentions, candidates_in,
          candidates, pc, i, tot_accuracy, result_str, hist, err, ret, log>>

inputs == <<preds, labels, docs, mentions>>

(* ---------------------------- bounds ----------------------------------- *)
MaxN == 3
MaxDoc == 1
MaxMention == 1
MaxShape == 2
MaxWalk == 5

Scores == {-1, 0, 1}
Labels == {0, 1}
WalkScores == {-1, 1}

Min(a, b) == IF a < b THEN a ELSE b

(* ------------------------ values of the code ---------------------------- *)
\* candidates=None (line 18, line 51)
NoCandidates == [given |-> FALSE, names |-> <<>>]

\* a list of L candidate names; row j carries the name j
Names(L) == [given |-> TRUE, names |-> [j \in 1..L |-> j]]

\* result_str = "" (line 46)
EmptyStr == [header |-> FALSE, lines |-> <<>>]

\* result_str = "doc; mention_i; ..." (lines 48-49)
HeaderStr == [header |-> TRUE, lines |-> <<>>]

NoReturn == [returned |-> FALSE, num |-> 0, den |-> 1, trace |-> EmptyStr]

\* python slice x[i:i + c], clipped at the end of x
Slice(x, start, c) == SubSeq(x, start + 1, Min(start + c, Len(x)))

\* zip(docs, mentions): stops at the shorter list
ZipKeys(d, m) == [j \in 1..Min(Len(d), Len(m)) |-> <<d[j], m[j]>>]

\* variant: the count keyed by the mention id alone
CounterByMention(d, m, key) ==
    Cardinality({j \in DOMAIN ZipKeys(d, m) : m[j] = key[2]})

\* ctr = Counter(zip(docs, mentions))[key]; a missing key counts 0
Counter(d, m, key) ==
    Cardinality({j \in DOMAIN ZipKeys(d, m) : ZipKeys(d, m)[j] = key})

\* variant: the number of distinct documents
NGroupsByDoc(d, m) == Cardinality({d[j] : j \in DOMAIN ZipKeys(d, m)})

\* n = len(ctr)
NGroups(d, m) == Cardinality({ZipKeys(d, m)[j] : j \in DOMAIN ZipKeys(d, m)})

\* the three assertions on the lengths
ShapeOK(p, l, d, m) == Len(p) = Len(l) /\ Len(p) = Len(d) /\ Len(p) = Len(m)

\* variant: without the comparison of the lengths
VerboseAnyLength(c, p) == c.given /\ Len(c.names) > 0

\* if candidates and len(candidates) == len(preds)
Verbose(c, p) == c.given /\ Len(c.names) > 0 /\ Len(c.names) = Len(p)

\* variant: the assertion with <= 2
GroundTruthOKTwo(ml) == Cardinality({j \in 1..Len(ml) : ml[j] = 1}) <= 2

\* assert len(mention_labels[mention_labels == 1.0]) <= 1
GroundTruthOK(ml) == Cardinality({j \in 1..Len(ml) : ml[j] = 1}) <= 1

\* variant: the last occurrence of the maximum
ArgMaxLast(s) ==
    CHOOSE k \in 1..Len(s) :
        /\ \A j \in 1..Len(s) : s[j] <= s[k]
        /\ \A j \in (k + 1)..Len(s) : s[j] < s[k]

\* np.argmax: the index of the first occurrence of the maximum (1-based)
ArgMax(s) ==
    CHOOSE k \in 1..Len(s) :
        /\ \A j \in 1..Len(s) : s[j] <= s[k]
        /\ \A j \in 1..(k - 1) : s[j] < s[k]

\* np.eye(c)[k]
Eye(c, k) == [j \in 1..c |-> IF j = k THEN 1 ELSE 0]

\* np.zeros(c)
Zeros(c) == [j \in 1..c |-> 0]

\* variant: without the test against 0
PredictNoThreshold(mp, c) == Eye(c, ArgMax(mp))

\* variant: the test against 0 with >=
PredictAtZero(mp, c) ==
    IF mp[ArgMax(mp)] >= 0 THEN Eye(c, ArgMax(mp)) ELSE Zeros(c)

\* lines 68-75: one-hot of the top prediction if it is positive, else zeros
Predict(mp, c) ==
    IF mp[ArgMax(mp)] > 0 THEN Eye(c, ArgMax(mp)) ELSE Zeros(c)

\* np.equal(pred, mention_labels) broadcasts: equal lengths, or one operand
\* of length 1; any other pair of lengths raises ValueError
Broadcastable(a, b) == Len(a) = Len(b) \/ Len(a) = 1 \/ Len(b) = 1

\* 1.0 if np.all(np.equal(pred, mention_labels)) else 0
MentionAccuracy(pred, ml) ==
    IF \A j \in 1..Len(pred) : \A k \in 1..Len(ml) :
          (Len(pred) = Len(ml) => (j = k => pred[j] = ml[k]))
          /\ (Len(pred) # Len(ml) => pred[j] = ml[k])
    THEN 1 ELSE 0

\* lines 84-89: one line per element of the zip of the four window lists
TraceLines(d, m, gt, acc, mc, pred, mp, ml) ==
    [j \in 1..Min(Min(Len(mc), Len(pred)), Min(Len(mp), Len(ml))) |->
        [doc |-> d + 1, mention_i |-> m, mention |-> gt, accuracy |-> acc,
         candidate |-> mc[j], label |-> ml[j], top_pred |-> pred[j],
         prediction |-> mp[j]]]

(* ------------------------------ inputs ---------------------------------- *)
Key(j) == <<docs[j], mentions[j]>>
N == Len(preds)
EqualLen == ShapeOK(preds, labels, docs, mentions)
Keys == {Key(j) : j \in 1..Min(Len(docs), Len(mentions))}
Rows(k) == {j \in 1..Min(Len(docs), Len(mentions)) : Key(j) = k}
Contiguous ==
    \A a \in 1..Min(Len(docs), Len(mentions)) :
        \A b \in a..Min(Len(docs), Len(mentions)) :
            Key(a) = Key(b) => \A c \in a..b : Key(c) = Key(a)
GroundTruths(k) == {j \in Rows(k) : labels[j] = 1}
AtMostOneGT == \A k \in Keys : Cardinality(GroundTruths(k)) <= 1
ValidInput == EqualLen /\ N >= 1 /\ Contiguous /\ AtMostOneGT

\* the candidates argument of a call on N rows: omitted, or N-1, N, N+1 names
CandidateInputs(len) == {NoCandidates, Names(len - 1), Names(len), Names(len + 1)}

Locals ==
    /\ candidates = candidates_in
    /\ pc = "call"
    /\ i = 0
    /\ tot_accuracy = 0
    /\ result_str = EmptyStr
    /\ hist = <<>>
    /\ err = "none"
    /\ ret = NoReturn
    /\ log = <<>>

\* equal-length arrays of 1..MaxN rows, the rows of each key contiguous
Init ==
    /\ \E len \in 1..MaxN :
        /\ preds \in [1..len -> Scores]
        /\ labels \in [1..len -> Labels]
        /\ docs \in [1..len -> 0..MaxDoc]
        /\ mentions \in [1..len -> 0..MaxMention]
        /\ candidates_in \in CandidateInputs(len)
    /\ Contiguous
    /\ Locals

(* ------------------------------ actions --------------------------------- *)
\* lines 36-55: the assertions on the shapes, then the set-up of the walk
Call ==
    /\ pc = "call"
    /\ IF ~ShapeOK(preds, labels, docs, mentions)
       THEN /\ err' = "ShapeAssertion"
            /\ pc' = "done"
            /\ UNCHANGED <<candidates, result_str>>
       ELSE /\ err' = "none"
            /\ pc' = "loop"
            /\ IF Verbose(candidates, preds)
               THEN result_str' = HeaderStr /\ UNCHANGED candidates
               ELSE result_str' = EmptyStr /\ candidates' = NoCandidates
    /\ i' = 0
    /\ tot_accuracy' = 0
    /\ UNCHANGED <<inputs, candidates_in, hist, ret, log>>

\* lines 56-91: one iteration of the while loop, i.e. one window
Window ==
    /\ pc = "loop"
    /\ i < Len(preds)
    /\ LET mention_key == <<docs[i + 1], mentions[i + 1]>>
           n_data_points == Counter(docs, mentions, mention_key)
           mention_preds == Slice(preds, i, n_data_points)
           mention_labels == Slice(labels, i, n_data_points)
           pred == Predict(mention_preds, n_data_points)
           mention_accuracy == MentionAccuracy(pred, mention_labels)
           mention_candidates == Slice(candidates.names, i, n_data_points)
           gt_index == ArgMax(mention_labels)
       IN  IF ~GroundTruthOK(mention_labels)
           THEN /\ err' = "GroundTruthAssertion"
                /\ pc' = "done"
                /\ UNCHANGED <<i, tot_accuracy, result_str, hist>>
           ELSE IF ~Broadcastable(pred, mention_labels)
           THEN /\ err' = "ValueError"
                /\ pc' = "done"
                /\ UNCHANGED <<i, tot_accuracy, result_str, hist>>
           ELSE IF candidates.given /\ Len(candidates.names) > 0
                   /\ gt_index > Len(mention_candidates)
           THEN /\ err' = "IndexError"
                /\ pc' = "done"
                /\ tot_accuracy' = tot_accuracy + mention_accuracy
                /\ UNCHANGED <<i, result_str, hist>>
           ELSE /\ tot_accuracy' = tot_accuracy + mention_accuracy
                /\ hist' = Append(hist,
                       [start |-> i, n |-> n_data_points,
                        preds |-> mention_preds, labels |-> mention_labels,
                        pred |-> pred, acc |-> mention_accuracy])
                /\ result_str' =
                       IF candidates.given /\ Len(candidates.names) > 0
                       THEN [result_str EXCEPT !.lines = @ \o
                               TraceLines(docs[i + 1], mentions[i + 1],
                                          mention_candidates[gt_index],
                                          mention_accuracy, mention_candidates,
                                          pred, mention_preds, mention_labels)]
                       ELSE result_str
                /\ i' = i + n_data_points
                /\ UNCHANGED <<pc, err>>
    /\ UNCHANGED <<inputs, candidates_in, candidates, ret, log>>

\* line 93: return tot_accuracy / n, result_str
Return ==
    /\ pc = "loop"
    /\ i >= Len(preds)
    /\ pc' = "done"
    /\ IF NGroups(docs, mentions) = 0
       THEN err' = "ZeroDivisionError" /\ UNCHANGED ret
       ELSE /\ ret' = [returned |-> TRUE, num |-> tot_accuracy,
                       den |-> NGroups(docs, mentions), trace |-> result_str]
            /\ UNCHANGED err
    /\ UNCHANGED <<inputs, candidates_in, candidates, i, tot_accuracy,
                   result_str, hist, log>>

Next == Call \/ Window \/ Return

Spec == Init /\ [][Next]_vars

(* ------------- two calls on the same four arrays ------------------------ *)
\* the first call passes one name per row; the arrays satisfy the contract
InitTwice ==
    /\ \E len \in 1..MaxN :
        /\ preds \in [1..len -> Scores]
        /\ labels \in [1..len -> Labels]
        /\ docs \in [1..len -> 0..MaxDoc]
        /\ mentions \in [1..len -> 0..MaxMention]
        /\ candidates_in = Names(len)
    /\ Contiguous
    /\ AtMostOneGT
    /\ Locals

\* the function is called a second time on the same scores, labels, doc ids
\* and mention ids, with the names omitted or of another length
CallAgain ==
    /\ pc = "done"
    /\ log = <<>>
    /\ log' = <<[candidates |-> candidates_in, err |-> err, ret |-> ret]>>
    /\ candidates_in' \in CandidateInputs(Len(preds)) \ {Names(Len(preds))}
    /\ candidates' = candidates_in'
    /\ pc' = "call"
    /\ i' = 0
    /\ tot_accuracy' = 0
    /\ result_str' = EmptyStr
    /\ hist' = <<>>
    /\ err' = "none"
    /\ ret' = NoReturn
    /\ UNCHANGED inputs

NextTwice == Call \/ Window \/ Return \/ CallAgain

SpecTwice == InitTwice /\ [][NextTwice]_vars

(* ------------- arrays of independent lengths, the empty ones included ---- *)
InitShape ==
    /\ \E lp \in 0..MaxShape, ll \in 0..MaxShape,
          ld \in 0..MaxShape, lm \in 0..MaxShape :
        /\ preds \in [1..lp -> Scores]
        /\ labels \in [1..ll -> Labels]
        /\ docs \in [1..ld -> 0..MaxDoc]
        /\ mentions \in [1..lm -> 0..MaxMention]
        /\ candidates_in \in CandidateInputs(lp)
    /\ Locals

SpecShape == InitShape /\ [][Next]_vars

(* ------------- equal-length arrays in arbitrary row order ---------------- *)
InitWalk ==
    /\ \E len \in 1..MaxWalk :
        /\ preds \in [1..len -> WalkScores]
        /\ labels \in [1..len -> Labels]
        /\ docs \in [1..len -> {0}]
        /\ mentions \in [1..len -> 0..MaxMention]
        /\ candidates_in \in {NoCandidates, Names(len)}
    /\ Locals

SpecWalk == InitWalk /\ [][Next]_vars

(* ======================= properties of the claims ====================== *)
Done == pc = "done"

\* the greatest score among the rows of key k
GroupMax(k) == CHOOSE v \in {preds[j] : j \in Rows(k)} :
                   \A j \in Rows(k) : preds[j] <= v

\* the first row, in input order, that carries the greatest score of key k
FirstTop(k) == CHOOSE j \in Rows(k) :
                   /\ preds[j] = GroupMax(k)
                   /\ \A j2 \in Rows(k) : j2 < j => preds[j2] < GroupMax(k)

\* row j is the one predicted true by steps 4 and 5 of the algorithm
Selected(j) == GroupMax(Key(j)) > 0 /\ j = FirstTop(Key(j))

\* the predicted vector of key k equals its label vector in every position
GroupExact(k) == \A j \in Rows(k) : (labels[j] = 1) <=> Selected(j)

\* the rows a scored window covers
WindowRows(h) == (h.start + 1)..(h.start + h.n)

\* every true candidate has strictly the highest score of its group
StrictTop ==
    \A k \in Keys : \A j \in GroundTruths(k) :
        \A j2 \in Rows(k) \ {j} : preds[j] > preds[j2]

\* ... and that score is positive, and a group without a true candidate has
\* no positive score
StrictTopPositive ==
    /\ StrictTop
    /\ \A k \in Keys : \A j \in GroundTruths(k) : preds[j] > 0
    /\ \A k \in Keys : GroundTruths(k) = {} => GroupMax(k) <= 0

\* C1 as stated: on a valid input where every true candidate has strictly the
\* highest score of its group, the returned accuracy is exactly 1.0
C1_PerfectPrediction_AsStated ==
    (Done /\ ValidInput /\ StrictTop) =>
        (ret.returned /\ ret.num = ret.den)

\* C1 amended: on a valid input where every true candidate has strictly the
\* highest score of its group and that score is greater than 0, and every
\* group without a true candidate has no score greater than 0, the returned
\* accuracy is exactly 1.0
C1_PerfectPrediction ==
    (Done /\ ValidInput /\ StrictTopPositive) =>
        (ret.returned /\ ret.num = ret.den)

C1_Witness ==
    /\ Done /\ ValidInput /\ StrictTopPositive
    /\ \E k \in Keys : GroundTruths(k) # {} /\ Cardinality(Rows(k)) >= 2
    /\ \E k \in Keys : GroundTruths(k) = {}
    /\ ret.returned /\ ret.num = ret.den

\* C2: on a valid input every mention group is scored exactly once (the
\* scored windows are the groups, one each) and the returned accuracy is the
\* number of groups whose predicted vector equals the label vector, divided
\* by the number of distinct (doc_id, mention_id) keys
C2_GroupAveraged ==
    (Done /\ ValidInput) =>
        /\ ret.returned
        /\ Len(hist) = Cardinality(Keys)
        /\ \A k \in Keys :
              Cardinality({w \in 1..Len(hist) : WindowRows(hist[w]) = Rows(k)}) = 1
        /\ ret.den = Cardinality(Keys)
        /\ ret.num = Cardinality({k \in Keys : GroupExact(k)})

C2_Witness ==
    /\ Done /\ ValidInput /\ ret.returned
    /\ Cardinality(Keys) = 2
    /\ \E k1, k2 \in Keys :
          /\ Cardinality(Rows(k1)) = 1 /\ Cardinality(Rows(k2)) = 2
          /\ GroupExact(k1) /\ ~GroupExact(k2)
    /\ ret.num = 1 /\ ret.den = 2

\* C3: a scored group whose maximum score is exactly 0 is predicted all
\* false and scores 1.0 if it has no label 1.0, else 0.0; a row is predicted
\* true only if the maximum score of its group is strictly greater than 0
C3_ThresholdBoundary ==
    EqualLen =>
      \A w \in 1..Len(hist) :
        LET h == hist[w]
            k == Key(h.start + 1)
        IN  /\ GroupMax(k) = 0 =>
                /\ \A p \in 1..Len(h.pred) : h.pred[p] = 0
                /\ h.acc = (IF GroundTruths(k) = {} THEN 1 ELSE 0)
            /\ \A p \in 1..Len(h.pred) : h.pred[p] = 1 => GroupMax(k) > 0

C3_Witness ==
    /\ Done /\ ValidInput /\ Len(hist) = 2
    /\ GroupMax(Key(1)) = 0 /\ GroundTruths(Key(1)) # {} /\ hist[1].acc = 0
    /\ GroupMax(Key(N)) = 0 /\ GroundTruths(Key(N)) = {} /\ hist[2].acc = 1

\* C4: on a valid input the call returns and 0.0 <= accuracy <= 1.0
C4_Range ==
    (Done /\ ValidInput) =>
        (ret.returned /\ ret.den > 0 /\ 0 <= ret.num /\ ret.num <= ret.den)

C4_Witness ==
    /\ Done /\ ValidInput /\ ret.returned
    /\ \E k1, k2 \in Keys : k1 # k2 /\ k1[1] = k2[1]
    /\ ret.num = ret.den /\ ret.den = 2

\* C5 as stated: when the four arrays do not all have the same length N with
\* N >= 1 (the empty input included), the call fails with the shape
\* assertion before any group is scored and returns nothing
C5_ShapePrecondition_AsStated ==
    (Done /\ (~EqualLen \/ N = 0)) =>
        (err = "ShapeAssertion" /\ hist = <<>> /\ ~ret.returned)

\* C6: on a contiguous equal-length input in which some group has more than
\* one label 1.0, the call fails with the ground-truth assertion and returns
\* neither an accuracy nor a trace
C6_MultipleGroundTruth ==
    (Done /\ EqualLen /\ N >= 1 /\ Contiguous /\ ~AtMostOneGT) =>
        (err = "GroundTruthAssertion" /\ ~ret.returned)

C6_Witness ==
    /\ Done /\ EqualLen /\ Contiguous /\ ~AtMostOneGT
    /\ Len(hist) >= 1
    /\ \E j \in 1..N : preds[j] > 0
    /\ err = "GroundTruthAssertion" /\ ~ret.returned

\* C7: on a valid input, the call with the names omitted or of a length
\* other than N raises nothing, returns the empty trace and returns the
\* accuracy of the call on the same arrays with N names
C7_VerboseNoOp ==
    (Done /\ ValidInput /\ Len(log) = 1) =>
        /\ log[1].candidates = Names(N)
        /\ candidates_in # Names(N)
        /\ err = "none" /\ ret.returned
        /\ ret.trace = EmptyStr
        /\ log[1].err = "none" /\ log[1].ret.returned
        /\ ret.num * log[1].ret.den = log[1].ret.num * ret.den

C7_Witness ==
    /\ Done /\ ValidInput /\ Len(log) = 1
    /\ candidates_in = Names(N + 1)
    /\ log[1].ret.trace.header /\ Len(log[1].ret.trace.lines) = N
    /\ ret.trace = EmptyStr
    /\ ret.num = 1 /\ ret.den = 2 /\ log[1].ret.num = 1 /\ log[1].ret.den = 2

\* C8: in every scored group at most one row is predicted true; when several
\* rows share a positive maximum the predicted row is the first of them in
\* input order, and the group scores 1.0 exactly when that row has label 1.0
C8_StableTieBreak ==
    EqualLen =>
      \A w \in 1..Len(hist) :
        LET h == hist[w]
            k == Key(h.start + 1)
            tied == {j \in Rows(k) : preds[j] = GroupMax(k)}
        IN  /\ Cardinality({p \in 1..Len(h.pred) : h.pred[p] = 1}) <= 1
            /\ (Cardinality(tied) >= 2 /\ GroupMax(k) > 0) =>
                  /\ \A j \in Rows(k) :
                        (h.pred[j - h.start] = 1) <=>
                            (j \in tied /\ \A j2 \in tied : j <= j2)
                  /\ (h.acc = 1) <=>
                        (\E j \in tied : labels[j] = 1 /\ \A j2 \in tied : j <= j2)

C8_Witness ==
    /\ Done /\ ValidInput /\ Len(hist) = 1 /\ N = 3
    /\ preds = <<0, 1, 1>> /\ labels = <<0, 1, 0>>
    /\ hist[1].pred = <<0, 1, 0>> /\ hist[1].acc = 1

\* C9 as stated: in verbose mode on a valid input the trace is the header
\* and one line per row in input order; the line of row j carries doc_id + 1,
\* the mention id, the accuracy of the group, the name, label, top-prediction
\* flag and score of the row, and as ground truth the name of the row of the
\* group with label 1.0, or a sentinel that is no candidate name if there is
\* no such row
C9_RowTrace_AsStated ==
    (Done /\ ValidInput /\ candidates_in = Names(N)) =>
        /\ ret.returned
        /\ ret.trace.header
        /\ Len(ret.trace.lines) = N
        /\ \A j \in 1..N :
            LET line == ret.trace.lines[j]
                k == Key(j)
            IN  /\ line.doc = docs[j] + 1
                /\ line.mention_i = mentions[j]
                /\ line.accuracy = (IF GroupExact(k) THEN 1 ELSE 0)
                /\ line.candidate = candidates_in.names[j]
                /\ line.label = labels[j]
                /\ line.top_pred = (IF Selected(j) THEN 1 ELSE 0)
                /\ line.prediction = preds[j]
                /\ \A g \in GroundTruths(k) :
                       line.mention = candidates_in.names[g]
                /\ GroundTruths(k) = {} =>
                       line.mention \notin
                           {candidates_in.names[c] : c \in 1..N}

\* C10 as stated: on every equal-length input with N >= 1, contiguous or
\* not, the walk ends after at most N windows, raises an error only for a
\* window with more than one label 1.0, scores at most G windows, and a
\* returned accuracy is at most 1.0
C10_WindowWalk_AsStated ==
    (Done /\ EqualLen /\ N >= 1) =>
        /\ Len(hist) <= N
        /\ err # "none" =>
              /\ err = "GroundTruthAssertion"
              /\ ~GroundTruthOK(Slice(labels, i,
                                      Counter(docs, mentions, Key(i + 1))))
        /\ Len(hist) <= Cardinality(Keys)
        /\ ret.returned => ret.num <= ret.den

====
